---- MODULE Spec2Model ----
(***************************************************************************)
(* go-rag-pack: source selection and deduplication (cmd/go-rag-pack        *)
(* main.go), the symbol-level chunk extractor (internal/chunk) and the     *)
(* project discovery over go list (internal/discover).                     *)
(*                                                                         *)
(* Go strings are modelled as sequences of one-character strings, ordered  *)
(* bytewise as strings.Compare and the < operator on strings order them.   *)
(***************************************************************************)
EXTENDS Integers, Sequences, FiniteSets, TLC

VARIABLES
    dIn,        \* dedupeSources: the argument list
    dPerm,      \* dedupeSources: a reordering of the argument list
    dOut,       \* dedupeSources(dIn), or NotRun
    dOut2,      \* dedupeSources(dOut), or NotRun
    dOutPerm,   \* dedupeSources(dPerm), or NotRun
    dpc,        \* position of the dedupe driver
    fsys,       \* the file system: directory listings and parsed files
    bSources,   \* Build: the argument list
    bPerm,      \* Build: a reordering of the argument list
    bRun,       \* Build: 1 in the call on bSources, 2 in the call on bPerm
    bIdx,       \* Build: index of the next source of the loop
    bAll,       \* Build: the local slice `all`
    bRet1,      \* Build: what the call on bSources returned
    bRet2,      \* Build: what the call on bPerm returned
    bpc,        \* Build: "loop" or "returned"
    project,    \* runBuild: the discover.Project
    cfg,        \* runBuild: the config.Config
    auto,       \* runBuild: the --auto flag
    remaining,  \* runBuild: keys of selectedModules the range loop has not visited
    visited,    \* runBuild: the keys visited, in the order of the visits
    sources,    \* runBuild: the local slice `sources`
    warnings,   \* runBuild: the warning lines written to os.Stderr
    buildCalls, \* runBuild: the arguments of the calls of chunk.Build
    written,    \* runBuild: the chunk lists given to output.WriteJSONL
    rErr,       \* runBuild: the error returned
    rpc,        \* runBuild: position
    sModule,    \* scanModulePackages: the argument
    sRet,       \* scanModulePackages: what the call returned
    spc,        \* scanModulePackages: "call" or "returned"
    toolchain,  \* Discover: what the three go list queries answer
    queries,    \* Discover: the queries made, in order
    modules,    \* Discover: the local slice `modules`
    mainModule, \* Discover: the local `mainModule`
    internalPkgs, \* Discover: the local slice `internalPkgs`
    gRet,       \* Discover: what the call returned
    gpc         \* Discover: position

dvars == <<dIn, dPerm, dOut, dOut2, dOutPerm, dpc>>
bvars == <<bSources, bPerm, bRun, bIdx, bAll, bRet1, bRet2, bpc>>
rvars == <<project, cfg, auto, remaining, visited, sources, warnings,
           buildCalls, written, rErr, rpc>>
svars == <<sModule, sRet, spc>>
gvars == <<toolchain, queries, modules, mainModule, internalPkgs, gRet, gpc>>
vars == <<dvars, fsys, bvars, rvars, svars, gvars>>

(***************************************************************************)
(* Bounds of the model.                                                    *)
(***************************************************************************)
MaxLen == 3
MaxSrc == 2
MaxSel == 4
MaxKids == 2
MaxDeps == 2

(***************************************************************************)
(* Strings.                                                                *)
(***************************************************************************)
\* The characters used, in ascending byte order.
Alphabet ==
    <<"\n", " ", "(", ")", "*", ",", "-", ".", "/", "2", ":",
      "A", "B", "M", "T", "U", "_",
      "a", "b", "c", "d", "e", "f", "g", "h", "i", "j", "k", "l", "m",
      "n", "o", "p", "q", "r", "s", "t", "u", "v", "w", "x", "y", "z">>

OrdTable ==
    [c \in {Alphabet[i] : i \in 1..Len(Alphabet)} |->
        CHOOSE i \in 1..Len(Alphabet) : Alphabet[i] = c]

Ord(c) == OrdTable[c]

RECURSIVE StrCompare(_, _)
\* strings.Compare: -1, 0 or +1 by bytewise lexicographic order.
StrCompare(a, b) ==
    IF a = <<>> /\ b = <<>> THEN 0
    ELSE IF a = <<>> THEN -1
    ELSE IF b = <<>> THEN 1
    ELSE IF Ord(Head(a)) < Ord(Head(b)) THEN -1
    ELSE IF Ord(Head(a)) > Ord(Head(b)) THEN 1
    ELSE StrCompare(Tail(a), Tail(b))

StrLess(a, b) == StrCompare(a, b) < 0

\* strings.HasSuffix
HasSuffix(s, suffix) ==
    /\ Len(s) >= Len(suffix)
    /\ SubSeq(s, Len(s) - Len(suffix) + 1, Len(s)) = suffix

\* strings.HasPrefix
HasPrefix(s, prefix) ==
    /\ Len(s) >= Len(prefix)
    /\ SubSeq(s, 1, Len(prefix)) = prefix

\* strings.Contains
Contains(s, substr) ==
    \E i \in 1..(Len(s) + 1) :
        /\ i + Len(substr) - 1 <= Len(s)
        /\ SubSeq(s, i, i + Len(substr) - 1) = substr

RECURSIVE StrJoin(_, _)
\* strings.Join
StrJoin(parts, sep) ==
    IF parts = <<>> THEN <<>>
    ELSE IF Len(parts) = 1 THEN parts[1]
    ELSE parts[1] \o sep \o StrJoin(Tail(parts), sep)

RECURSIVE StrSplit(_, _)
\* The elements of a path: the non-empty parts between separators.
StrSplit(s, sep) ==
    IF s = <<>> THEN <<>>
    ELSE IF Head(s) = sep THEN StrSplit(Tail(s), sep)
    ELSE LET n == CHOOSE k \in 1..Len(s) :
                      /\ \A i \in 1..k : s[i] # sep
                      /\ (k = Len(s) \/ s[k + 1] = sep)
         IN  <<SubSeq(s, 1, n)>> \o StrSplit(SubSeq(s, n + 1, Len(s)), sep)

(***************************************************************************)
(* chunk.SourceKind and chunk.PackageSource.                               *)
(***************************************************************************)
SourceProject == <<"p", "r", "o", "j", "e", "c", "t">>
SourceThirdParty == <<"t", "h", "i", "r", "d", "-", "p", "a", "r", "t", "y">>
SourceStdlib == <<"s", "t", "d", "l", "i", "b">>

SourceKinds == {SourceProject, SourceThirdParty, SourceStdlib}

PackageSource(modulePath, moduleVersion, moduleDir, importPath, dir, kind) ==
    [ModulePath |-> modulePath, ModuleVersion |-> moduleVersion,
     ModuleDir |-> moduleDir, ImportPath |-> importPath, Dir |-> dir,
     Kind |-> kind]

(***************************************************************************)
(* dedupeSources.                                                          *)
(***************************************************************************)
\* The precedence with third-party sources ahead of project sources.
orderThirdPartyFirst(k) ==
    IF k = SourceThirdParty THEN 0
    ELSE IF k = SourceProject THEN 1
    ELSE IF k = SourceStdlib THEN 2
    ELSE 3

\* The closure `order` of dedupeSources: lower is preferred.
order(k) ==
    CASE k = SourceProject -> 0
      [] k = SourceThirdParty -> 1
      [] k = SourceStdlib -> 2
      [] OTHER -> 3

\* A key that also holds the kind: entries of different kinds never meet.
keyWithKind(src) ==
    [importPath |-> src.ImportPath, dir |-> src.Dir, kind |-> src.Kind]

\* The local type `key` of dedupeSources.
key(src) == [importPath |-> src.ImportPath, dir |-> src.Dir]

\* The loop body without the precedence test: the first entry always stays.
seenStepFirstWins(seen, src) ==
    LET k == [importPath |-> src.ImportPath, dir |-> src.Dir] IN
    IF k \in DOMAIN seen THEN seen ELSE seen @@ (k :> src)

\* The loop body with <= for <: a later entry of equal precedence replaces
\* the one kept.
seenStepLastWins(seen, src) ==
    LET k == [importPath |-> src.ImportPath, dir |-> src.Dir] IN
    IF k \in DOMAIN seen
    THEN IF order(src.Kind) <= order(seen[k].Kind)
         THEN [seen EXCEPT ![k] = src]
         ELSE seen
    ELSE seen @@ (k :> src)

\* One iteration of the loop over sources: the map `seen` after `src`.
seenStep(seen, src) ==
    LET k == key(src) IN
    IF k \in DOMAIN seen
    THEN IF order(src.Kind) < order(seen[k].Kind)
         THEN [seen EXCEPT ![k] = src]
         ELSE seen
    ELSE seen @@ (k :> src)

RECURSIVE seenOf(_)
\* The map `seen` after the loop over the whole list.
seenOf(srcs) ==
    IF srcs = <<>> THEN <<>>
    ELSE seenStep(seenOf(SubSeq(srcs, 1, Len(srcs) - 1)),
                  srcs[Len(srcs)])

\* A comparison that looks at the directory first.
keyCmpDirFirst(a, b) ==
    LET cmp == StrCompare(a.dir, b.dir) IN
    IF cmp # 0 THEN cmp ELSE StrCompare(a.importPath, b.importPath)

\* The comparison function given to slices.SortFunc.
keyCmp(a, b) ==
    LET cmp == StrCompare(a.importPath, b.importPath) IN
    IF cmp # 0 THEN cmp ELSE StrCompare(a.dir, b.dir)

RECURSIVE insertKey(_, _)
\* One insertion of the sort: x is moved left past every element it is
\* less than.
insertKey(s, x) ==
    IF s = <<>> \/ ~(keyCmp(x, s[Len(s)]) < 0) THEN Append(s, x)
    ELSE Append(insertKey(SubSeq(s, 1, Len(s) - 1), x), s[Len(s)])

RECURSIVE sortKeys(_)
sortKeys(s) ==
    IF s = <<>> THEN <<>>
    ELSE insertKey(sortKeys(SubSeq(s, 1, Len(s) - 1)), s[Len(s)])

RECURSIVE rangeOver(_)
\* `for k := range seen`: the keys of a map, in some order.
rangeOver(S) ==
    IF S = {} THEN <<>>
    ELSE LET k == CHOOSE x \in S : TRUE IN <<k>> \o rangeOver(S \ {k})

\* The zero value of chunk.PackageSource.
ZeroSource == PackageSource(<<>>, <<>>, <<>>, <<>>, <<>>, <<>>)

\* The result slice made with a length instead of a capacity: the entries
\* are appended after len(keys) zero values.
dedupedMakeLen(seen, keys) ==
    [i \in 1..Len(keys) |-> ZeroSource] \o [i \in 1..Len(keys) |-> seen[keys[i]]]

\* The loop that builds `deduped`: the entry of each key, in the order of
\* the keys.
deduped(seen, keys) == [i \in 1..Len(keys) |-> seen[keys[i]]]

\* The keys of the map, collected and sorted.
sortedKeys(seen) == sortKeys(rangeOver(DOMAIN seen))

\* dedupeSources after the loop over the sources.
dedupedOf(seen) == deduped(seen, sortedKeys(seen))

dedupeSources(srcs) ==
    IF Len(srcs) <= 1 THEN srcs ELSE dedupedOf(seenOf(srcs))

(***************************************************************************)
(* Inputs of dedupeSources.                                                *)
(***************************************************************************)
DedupeImportPaths == {<<"a">>, <<"a", "/", "b">>}
DedupeDirs == {<<"/", "m">>, <<"/", "m", "/", "b">>}
DedupeModulePaths == {<<"a">>, <<"x">>}

DedupeSourceSet ==
    {PackageSource(mp, <<>>, <<"/", "m">>, ip, d, k) :
        mp \in DedupeModulePaths, ip \in DedupeImportPaths,
        d \in DedupeDirs, k \in SourceKinds}

SeqsUpTo(S, n) == UNION {[1..m -> S] : m \in 0..n}

NotRun == "not-run"

\* The reorderings of a list.
Reorderings(s) ==
    {[i \in 1..Len(s) |-> s[p[i]]] :
        p \in {q \in [1..Len(s) -> 1..Len(s)] :
                  \A i, j \in 1..Len(s) : i # j => q[i] # q[j]}}

DedupeInit ==
    /\ dIn \in SeqsUpTo(DedupeSourceSet, MaxLen)
    /\ dPerm = dIn
    /\ dOut = NotRun
    /\ dOut2 = NotRun
    /\ dOutPerm = NotRun
    /\ dpc = "start"

\* The dedupe driver is not part of the run.
DedupeIdle ==
    /\ dIn = <<>>
    /\ dPerm = <<>>
    /\ dOut = NotRun
    /\ dOut2 = NotRun
    /\ dOutPerm = NotRun
    /\ dpc = "idle"

\* dedupeSources is called directly, not from runBuild.
DedupeAlone == UNCHANGED <<fsys, bvars, rvars, svars, gvars>>

\* dedupeSources is applied to the list.
DedupeCall ==
    /\ dpc = "start"
    /\ dOut' = dedupeSources(dIn)
    /\ dpc' = "once"
    /\ UNCHANGED <<dIn, dPerm, dOut2, dOutPerm>>
    /\ DedupeAlone

\* dedupeSources is applied to its own result.
DedupeAgain ==
    /\ dpc = "once"
    /\ dOut2' = dedupeSources(dOut)
    /\ dpc' = "twice"
    /\ UNCHANGED <<dIn, dPerm, dOut, dOutPerm>>
    /\ DedupeAlone

\* dedupeSources is applied to a reordering of the list.
DedupePermuted ==
    /\ dpc = "twice"
    /\ \E p \in Reorderings(dIn) :
          /\ dPerm' = p
          /\ dOutPerm' = dedupeSources(p)
    /\ dpc' = "done"
    /\ UNCHANGED <<dIn, dOut, dOut2>>
    /\ DedupeAlone

(***************************************************************************)
(* The file system and the parser, as the extractor sees them.             *)
(*                                                                         *)
(* A directory is [readable, entries]: whether os.ReadDir succeeds on it,  *)
(* and its entries [name, isDir] in the order os.ReadDir returns them (by  *)
(* file name).  A file is what parser.ParseFile                            *)
(* makes of it: a parse error, or a syntax tree with the package name, the *)
(* text of the package comment and the top-level declarations.  Each node  *)
(* carries its doc comment text (commentText of its Doc) and the source    *)
(* text between its Pos and its End.                                       *)
(***************************************************************************)
NoErr == [isErr |-> FALSE, msg |-> <<>>]
Err(msg) == [isErr |-> TRUE, msg |-> msg]

ErrNotExist == <<"n", "o", " ", "s", "u", "c", "h", " ", "f", "i", "l", "e">>
ErrSyntax == <<"e", "x", "p", "e", "c", "t", "e", "d", " ", "d", "e", "c", "l">>

Entry(name, isDir) == [name |-> name, isDir |-> isDir]

Dir(entries) == [readable |-> TRUE, entries |-> entries]
UnreadableDir == [readable |-> FALSE, entries |-> <<>>]

\* os.ReadDir
ReadDirFails(fs, path) == path \notin DOMAIN fs.dirs \/ ~fs.dirs[path].readable

FuncDecl(name, hasRecv, recv, doc, snippet) ==
    [node |-> "FuncDecl", Name |-> name, HasRecv |-> hasRecv, Recv |-> recv,
     Doc |-> doc, Snippet |-> snippet]

Field(names, type) == [Names |-> names, Type |-> type]

GenDecl(tok, doc, specs) ==
    [node |-> "GenDecl", Tok |-> tok, Doc |-> doc, Specs |-> specs]

TypeSpec(name, doc, snippet) ==
    [node |-> "TypeSpec", Name |-> name, Doc |-> doc, Snippet |-> snippet]

ValueSpec(names, doc, snippet) ==
    [node |-> "ValueSpec", Names |-> names, Doc |-> doc, Snippet |-> snippet]

ImportSpec == [node |-> "ImportSpec"]

BadDecl == [node |-> "BadDecl"]

ParsedFile(name, doc, decls) ==
    [err |-> NoErr, Name |-> name, Doc |-> doc, Decls |-> decls]

Unparsable == [err |-> Err(ErrSyntax), Name |-> <<>>, Doc |-> <<>>, Decls |-> <<>>]

\* A file that os.ReadFile fails on.
Unreadable == [err |-> Err(ErrNotExist), Name |-> <<>>, Doc |-> <<>>, Decls |-> <<>>]

(***************************************************************************)
(* internal/chunk.                                                         *)
(***************************************************************************)
Metadata(path, pkg, importPath, modulePath, moduleVersion, symbol, kind, source) ==
    [Path |-> path, PackageName |-> pkg, ImportPath |-> importPath,
     ModulePath |-> modulePath, ModuleVersion |-> moduleVersion,
     Symbol |-> symbol, Kind |-> kind, Source |-> source]

Chunk(id, text, metadata) == [ID |-> id, Text |-> text, Metadata |-> metadata]

Colon == <<":">>
Slash == <<"/">>
BlankLine == <<"\n", "\n">>

\* filepath.IsAbs
IsAbs(path) == path # <<>> /\ Head(path) = "/"

\* filepath.Join of a clean directory and a file name.
PathJoin(dir, name) == dir \o Slash \o name

RECURSIVE commonPrefix(_, _)
\* The number of leading elements two paths share.
commonPrefix(a, b) ==
    IF a = <<>> \/ b = <<>> \/ Head(a) # Head(b) THEN 0
    ELSE 1 + commonPrefix(Tail(a), Tail(b))

\* The elements of the relative path: one ".." for each element of base
\* after the first n, then the elements of targ after the first n.
relParts(base, targ, n) ==
    [i \in 1..(Len(base) - n) |-> <<".", ".">>] \o SubSeq(targ, n + 1, Len(targ))

relJoin(parts) == IF parts = <<>> THEN <<".">> ELSE StrJoin(parts, Slash)

\* filepath.Rel on the elements of two clean paths.
relOf(base, targ) == relJoin(relParts(base, targ, commonPrefix(base, targ)))

\* filepath.Rel on clean paths: [err, rel].
PathRel(basepath, targpath) ==
    IF IsAbs(basepath) # IsAbs(targpath)
    THEN [err |-> TRUE, rel |-> <<>>]
    ELSE [err |-> FALSE,
          rel |-> relOf(StrSplit(basepath, "/"), StrSplit(targpath, "/"))]

\* relativePath after filepath.Rel: the path itself on error.
relOrPath(r, path) == IF r.err THEN path ELSE r.rel

relativePath(root, path) ==
    IF root = <<>> THEN path
    ELSE relOrPath(PathRel(root, path), path)

shouldSkipFile(name) ==
    \/ HasSuffix(name, <<"_", "t", "e", "s", "t", ".", "g", "o">>)
    \/ HasSuffix(name, <<"_", "m", "o", "c", "k", ".", "g", "o">>)
    \/ HasSuffix(name, <<"_", "g", "e", "n", "e", "r", "a", "t", "e", "d", ".", "g", "o">>)
    \/ Contains(name, <<".", "p", "b", ".", "g", "o">>)
    \/ Contains(name, <<"_", "p", "b", "2", ".", "g", "o">>)

\* exprString of the fields' types, joined as formatReceiver joins them.
formatReceiver(list) ==
    StrJoin([i \in 1..Len(list) |->
                StrJoin(list[i].Names, <<",", " ">>) \o <<" ">> \o list[i].Type],
            <<",", " ">>)

\* gatherDoc(decl.Doc, s.Doc): the non-empty texts joined by a newline.
gatherDoc(groupDoc, specDoc) ==
    StrJoin(SelectSeq(<<groupDoc, specDoc>>, LAMBDA d : d # <<>>), <<"\n">>)

\* The text of a chunk: the doc comment, a blank line, the snippet.
chunkText(doc, snippet) ==
    IF doc # <<>> THEN doc \o BlankLine \o snippet ELSE snippet

\* The id of buildFuncChunk: fmt.Sprintf("%s:%s", path, decl.Name.Name).
funcID(path, decl) == path \o Colon \o decl.Name

buildFuncChunk(src, path, pkg, decl) ==
    LET symbol == IF decl.HasRecv
                  THEN <<"f", "u", "n", "c", " ", "(">> \o formatReceiver(decl.Recv)
                           \o <<")", " ">> \o decl.Name
                  ELSE <<"f", "u", "n", "c", " ">> \o decl.Name
    IN  Chunk(funcID(path, decl), chunkText(decl.Doc, decl.Snippet),
              Metadata(path, pkg, src.ImportPath, src.ModulePath,
                       src.ModuleVersion, symbol,
                       <<"f", "u", "n", "c", "t", "i", "o", "n">>, src.Kind))

\* The chunk of one spec of a GenDecl, or no chunk.
buildSpecChunks(src, path, pkg, decl, s) ==
    IF s.node = "TypeSpec"
    THEN <<Chunk(path \o Colon \o <<"t", "y", "p", "e">> \o Colon \o s.Name,
                 chunkText(gatherDoc(decl.Doc, s.Doc), s.Snippet),
                 Metadata(path, pkg, src.ImportPath, src.ModulePath,
                          src.ModuleVersion, <<"t", "y", "p", "e", " ">> \o s.Name,
                          <<"t", "y", "p", "e">>, src.Kind))>>
    ELSE IF s.node = "ValueSpec"
    THEN IF s.Names = <<>> THEN <<>>
         ELSE <<Chunk(path \o Colon \o decl.Tok \o Colon \o StrJoin(s.Names, <<",">>),
                      chunkText(gatherDoc(decl.Doc, s.Doc), s.Snippet),
                      Metadata(path, pkg, src.ImportPath, src.ModulePath,
                               src.ModuleVersion,
                               decl.Tok \o <<" ">> \o StrJoin(s.Names, <<",", " ">>),
                               decl.Tok, src.Kind))>>
    ELSE <<>>

RECURSIVE concatAll(_)
\* The concatenation of a sequence of sequences.
concatAll(ss) == IF ss = <<>> THEN <<>> ELSE Head(ss) \o concatAll(Tail(ss))

buildGenChunks(src, path, pkg, decl) ==
    concatAll([i \in 1..Len(decl.Specs) |->
                  buildSpecChunks(src, path, pkg, decl, decl.Specs[i])])

\* The chunks of a parsed file whose relative path is fileRel: the file-doc
\* chunk, then the chunks of the declarations in source order.
fileChunks(src, fileRel, file) ==
    LET docChunks ==
            IF file.Doc # <<>>
            THEN <<Chunk(fileRel \o Colon \o file.Name \o Colon
                             \o <<"f", "i", "l", "e", "-", "d", "o", "c">>,
                         file.Doc,
                         Metadata(fileRel, file.Name, src.ImportPath,
                                  src.ModulePath, src.ModuleVersion, <<>>,
                                  <<"f", "i", "l", "e", "-", "d", "o", "c">>,
                                  src.Kind))>>
            ELSE <<>>
        declChunks(d) ==
            IF d.node = "FuncDecl"
            THEN <<buildFuncChunk(src, fileRel, file.Name, d)>>
            ELSE IF d.node = "GenDecl"
            THEN buildGenChunks(src, fileRel, file.Name, d)
            ELSE <<>>
    IN  docChunks \o concatAll([i \in 1..Len(file.Decls) |-> declChunks(file.Decls[i])])

\* parseFile on the parse result `file` of filePath: [chunks, err].
parseFile(src, filePath, file) ==
    IF file.err.isErr THEN [chunks |-> <<>>, err |-> file.err]
    ELSE [chunks |-> fileChunks(src, relativePath(src.ModuleDir, filePath), file),
          err |-> NoErr]

RECURSIVE insertStr(_, _)
insertStr(s, x) ==
    IF s = <<>> \/ ~StrLess(x, s[Len(s)]) THEN Append(s, x)
    ELSE Append(insertStr(SubSeq(s, 1, Len(s) - 1), x), s[Len(s)])

RECURSIVE sortStrings(_)
\* sort.Strings
sortStrings(s) ==
    IF s = <<>> THEN <<>>
    ELSE insertStr(sortStrings(SubSeq(s, 1, Len(s) - 1)), s[Len(s)])

\* Two results in sequence where an error keeps the chunks gathered before
\* it.
thenChunksPartial(first, rest) ==
    IF first.err.isErr THEN first
    ELSE [chunks |-> first.chunks \o rest.chunks, err |-> rest.err]

\* Two results in sequence: the first error, or else all the chunks.
thenChunks(first, rest) ==
    IF first.err.isErr THEN [chunks |-> <<>>, err |-> first.err]
    ELSE IF rest.err.isErr THEN [chunks |-> <<>>, err |-> rest.err]
    ELSE [chunks |-> first.chunks \o rest.chunks, err |-> NoErr]

\* fmt.Errorf("chunk %s: %w", file, err) around a failed parseFile.
chunkErr(file, r) ==
    IF r.err.isErr
    THEN [chunks |-> <<>>,
          err |-> Err(<<"c", "h", "u", "n", "k", " ">> \o file \o <<":", " ">>
                          \o r.err.msg)]
    ELSE r

\* os.ReadFile and parser.ParseFile of a file, then its chunks.
readAndParse(src, file, fs) ==
    IF file \in DOMAIN fs.files THEN parseFile(src, file, fs.files[file])
    ELSE [chunks |-> <<>>, err |-> Err(ErrNotExist)]

RECURSIVE parseFiles(_, _, _)
\* The loop over goFiles: the first error ends it and drops the chunks.
parseFiles(src, goFiles, fs) ==
    IF goFiles = <<>> THEN [chunks |-> <<>>, err |-> NoErr]
    ELSE thenChunks(chunkErr(Head(goFiles), readAndParse(src, Head(goFiles), fs)),
                    parseFiles(src, Tail(goFiles), fs))

namesOf(entries) == [i \in 1..Len(entries) |-> entries[i].name]

\* filepath.Join(dir, name) for each name.
joinAll(dir, names) == [i \in 1..Len(names) |-> PathJoin(dir, names[i])]

\* The files of a listing that the extractor reads.
eligibleNames(entries) ==
    LET keep(e) == /\ ~e.isDir
                   /\ HasSuffix(e.name, <<".", "g", "o">>)
                   /\ ~shouldSkipFile(e.name)
    IN  namesOf(SelectSeq(entries, keep))

buildForPackage(src, fs) ==
    IF ReadDirFails(fs, src.Dir)
    THEN [chunks |-> <<>>, err |-> Err(ErrNotExist)]
    ELSE parseFiles(src,
                    sortStrings(joinAll(src.Dir,
                                        eligibleNames(fs.dirs[src.Dir].entries))),
                    fs)

\* A comparison that leaves the id out.
chunkLessNoID(a, b) ==
    IF a.Metadata.ModulePath # b.Metadata.ModulePath
    THEN StrLess(a.Metadata.ModulePath, b.Metadata.ModulePath)
    ELSE StrLess(a.Metadata.Path, b.Metadata.Path)

\* The less function Build gives to sort.Slice.
chunkLess(a, b) ==
    IF a.Metadata.ModulePath # b.Metadata.ModulePath
    THEN StrLess(a.Metadata.ModulePath, b.Metadata.ModulePath)
    ELSE IF a.Metadata.Path # b.Metadata.Path
    THEN StrLess(a.Metadata.Path, b.Metadata.Path)
    ELSE StrLess(a.ID, b.ID)

RECURSIVE insertChunk(_, _)
insertChunk(s, x) ==
    IF s = <<>> \/ ~chunkLess(x, s[Len(s)]) THEN Append(s, x)
    ELSE Append(insertChunk(SubSeq(s, 1, Len(s) - 1), x), s[Len(s)])

RECURSIVE sortChunks(_)
\* sort.Slice with chunkLess.  A slice of at most 12 elements is sorted by
\* insertion; the lists of this model are no longer than that.
sortChunks(s) ==
    IF s = <<>> THEN <<>>
    ELSE insertChunk(sortChunks(SubSeq(s, 1, Len(s) - 1)), s[Len(s)])

RECURSIVE collectChunks(_, _)
\* The loop of Build over the sources: the first error ends it.
collectChunks(srcs, fs) ==
    IF srcs = <<>> THEN [chunks |-> <<>>, err |-> NoErr]
    ELSE thenChunks(buildForPackage(Head(srcs), fs), collectChunks(Tail(srcs), fs))

\* Build after its loop: the error, or the chunks sorted.
sortedResult(all) ==
    IF all.err.isErr THEN all
    ELSE [chunks |-> sortChunks(all.chunks), err |-> NoErr]

\* chunk.Build on the file system fs: [chunks, err].
Build(srcs, fs) == sortedResult(collectChunks(srcs, fs))

(***************************************************************************)
(* Inputs of Build: package sources and the files behind them.             *)
(***************************************************************************)
DirMP == <<"/", "m", "/", "p">>
DirNP == <<"/", "n", "/", "p">>
DirQ == <<"/", "q">>
FileAGo == <<"a", ".", "g", "o">>
FileBGo == <<"b", ".", "g", "o">>

\* The directories: the main module at /m, modules at /n, /v and /w, the
\* standard library under /g/src.  /q does not exist.
FsDirs ==
    (<<"/", "m">> :>
        Dir(<<Entry(<<".", "g", "i", "t">>, TRUE),
              Entry(<<"g", "o", ".", "m", "o", "d">>, FALSE),
              Entry(<<"p">>, TRUE),
              Entry(<<"v", "e", "n", "d", "o", "r">>, TRUE)>>))
    @@ (<<"/", "m", "/", ".", "g", "i", "t">> :> Dir(<<Entry(<<"h", ".", "g", "o">>, FALSE)>>))
    @@ (<<"/", "m", "/", "v", "e", "n", "d", "o", "r">> :>
        Dir(<<Entry(<<"v", ".", "g", "o">>, FALSE)>>))
    @@ (DirMP :>
        Dir(<<Entry(FileAGo, FALSE),
              Entry(<<"a", "_", "t", "e", "s", "t", ".", "g", "o">>, FALSE),
              Entry(FileBGo, FALSE),
              Entry(<<"s", "u", "b">>, TRUE)>>))
    @@ (<<"/", "m", "/", "p", "/", "s", "u", "b">> :>
        Dir(<<Entry(<<"c", "_", "m", "o", "c", "k", ".", "g", "o">>, FALSE)>>))
    @@ (<<"/", "n">> :> Dir(<<Entry(<<"p">>, TRUE)>>))
    @@ (DirNP :>
        Dir(<<Entry(FileAGo, FALSE),
              Entry(<<"a", ".", "p", "b", ".", "g", "o">>, FALSE),
              Entry(<<"n", "o", "t", "e", "s">>, FALSE)>>))
    @@ (<<"/", "v">> :>
        Dir(<<Entry(FileAGo, FALSE),
              Entry(<<"t", "e", "s", "t", "d", "a", "t", "a">>, TRUE)>>))
    @@ (<<"/", "v", "/", "t", "e", "s", "t", "d", "a", "t", "a">> :> UnreadableDir)
    @@ (<<"/", "w">> :>
        Dir(<<Entry(FileAGo, FALSE), Entry(<<"b", "a", "d">>, TRUE)>>))
    @@ (<<"/", "w", "/", "b", "a", "d">> :> UnreadableDir)
    @@ (<<"/", "g", "/", "s", "r", "c", "/", "f", "m", "t">> :>
        Dir(<<Entry(FileAGo, FALSE)>>))

PkgP == <<"p">>
RecvT == <<Field(<<<<"t">>>>, <<"T">>)>>
RecvU == <<Field(<<<<"u">>>>, <<"*", "U">>)>>

\* func b(), then func a(): declarations out of id order.
FileTwoFuncs ==
    ParsedFile(PkgP, <<>>,
        <<FuncDecl(<<"b">>, FALSE, <<>>, <<>>, <<"f", "u", "n", "c", " ", "b">>),
          FuncDecl(<<"a">>, FALSE, <<>>, <<"d", "o", "c">>,
                   <<"f", "u", "n", "c", " ", "a">>)>>)

\* func (t T) m() and func (u *U) m(): one method name on two receivers.
FileTwoMethods ==
    ParsedFile(PkgP, <<>>,
        <<FuncDecl(<<"m">>, TRUE, RecvT, <<>>, <<"m", "T">>),
          FuncDecl(<<"m">>, TRUE, RecvU, <<>>, <<"m", "U">>)>>)

\* func m() and func (t T) m(): a function and a method of one name.
FileFuncAndMethod ==
    ParsedFile(PkgP, <<>>,
        <<FuncDecl(<<"m">>, FALSE, <<>>, <<>>, <<"m">>),
          FuncDecl(<<"m">>, TRUE, RecvT, <<>>, <<"m", "T">>)>>)

\* An import, type T and var B, a: grouped declarations.
FileGenDecls ==
    ParsedFile(PkgP, <<>>,
        <<GenDecl(<<"i", "m", "p", "o", "r", "t">>, <<>>, <<ImportSpec>>),
          GenDecl(<<"t", "y", "p", "e">>, <<"g">>,
                  <<TypeSpec(<<"T">>, <<"s">>, <<"T">>)>>),
          GenDecl(<<"v", "a", "r">>, <<>>,
                  <<ValueSpec(<<<<"B">>, <<"a">>>>, <<>>, <<"B", ",", "a">>),
                    ValueSpec(<<>>, <<>>, <<>>)>>)>>)

\* A package comment and func a().
FileDocAndFunc ==
    ParsedFile(PkgP, <<"d", "o", "c">>,
        <<FuncDecl(<<"a">>, FALSE, <<>>, <<>>, <<"f", "u", "n", "c", " ", "a">>)>>)

\* One function.
FileOneFunc ==
    ParsedFile(<<"f">>, <<>>,
        <<FuncDecl(<<"A">>, FALSE, <<>>, <<>>, <<"f", "u", "n", "c", " ", "A">>)>>)

\* The files outside the two package directories /m/p and /n/p.
FsOtherFiles ==
    (PathJoin(<<"/", "v">>, FileAGo) :> FileOneFunc)
    @@ (PathJoin(<<"/", "w">>, FileAGo) :> FileOneFunc)
    @@ (PathJoin(<<"/", "g", "/", "s", "r", "c", "/", "f", "m", "t">>, FileAGo) :> FileOneFunc)

\* What each eligible file may hold.
BuildFileChoices ==
    (PathJoin(DirMP, FileAGo) :>
        {FileTwoFuncs, FileTwoMethods, FileGenDecls, Unparsable, Unreadable})
    @@ (PathJoin(DirMP, FileBGo) :> {FileDocAndFunc, FileFuncAndMethod})
    @@ (PathJoin(DirNP, FileAGo) :>
        {FileTwoFuncs, FileFuncAndMethod, FileDocAndFunc, Unparsable})

BuildFileSystems ==
    {[dirs |-> FsDirs, files |-> f @@ FsOtherFiles] :
        f \in {g \in [DOMAIN BuildFileChoices ->
                         UNION {BuildFileChoices[x] : x \in DOMAIN BuildFileChoices}] :
                  \A x \in DOMAIN BuildFileChoices : g[x] \in BuildFileChoices[x]}}

\* (ModuleDir, ImportPath suffix, Dir) of the sources given to Build.
BuildSourceShapes ==
    {<<<<"/", "m">>, <<"/", "p">>, DirMP>>,
     <<<<"/", "n">>, <<"/", "n", "/", "p">>, DirNP>>,
     <<<<"/", "m">>, <<"/", "n", "/", "p">>, DirNP>>,
     <<<<>>, <<"/", "p">>, DirMP>>,
     <<<<"/", "m">>, <<"/", "q">>, DirQ>>}

BuildSourceSet ==
    {PackageSource(mp, <<>>, sh[1], mp \o sh[2], sh[3],
                   IF mp = <<"x">> THEN SourceProject ELSE SourceThirdParty) :
        mp \in {<<"x">>, <<"y">>}, sh \in BuildSourceShapes}

NoResult == [chunks |-> <<>>, err |-> NoErr]

BuildInit ==
    /\ fsys \in BuildFileSystems
    /\ bSources \in SeqsUpTo(BuildSourceSet, MaxSrc)
    /\ bPerm = bSources
    /\ bRun = 1
    /\ bIdx = 1
    /\ bAll = <<>>
    /\ bRet1 = NoResult
    /\ bRet2 = NoResult
    /\ bpc = "loop"

\* The list the current call of Build was given.
bCurrent == IF bRun = 1 THEN bSources ELSE bPerm

\* Build is called directly, not from runBuild.
BuildAlone == UNCHANGED <<dvars, fsys, rvars, svars, gvars>>

\* The current call of Build returns r.
bReturn(r) ==
    /\ bpc' = "returned"
    /\ IF bRun = 1
       THEN bRet1' = r /\ UNCHANGED bRet2
       ELSE bRet2' = r /\ UNCHANGED bRet1

\* The loop body after buildForPackage has returned r.
BuildPackageDone(r) ==
    IF r.err.isErr
    THEN /\ bReturn([chunks |-> <<>>, err |-> r.err])
         /\ UNCHANGED <<bIdx, bAll>>
    ELSE /\ bAll' = bAll \o r.chunks
         /\ bIdx' = bIdx + 1
         /\ UNCHANGED <<bpc, bRet1, bRet2>>

\* One iteration of the loop of Build: a package is chunked, and its chunks
\* are appended or its error returned.
BuildPackage ==
    /\ bpc = "loop"
    /\ bIdx <= Len(bCurrent)
    /\ BuildPackageDone(buildForPackage(bCurrent[bIdx], fsys))
    /\ UNCHANGED <<bSources, bPerm, bRun>>
    /\ BuildAlone

\* After the loop: the chunks are sorted and returned.
BuildSort ==
    /\ bpc = "loop"
    /\ bIdx > Len(bCurrent)
    /\ bReturn([chunks |-> sortChunks(bAll), err |-> NoErr])
    /\ UNCHANGED <<bSources, bPerm, bRun, bIdx, bAll>>
    /\ BuildAlone

\* Build is called again on a reordering of the sources, the files unchanged.
BuildReordered ==
    /\ bpc = "returned"
    /\ bRun = 1
    /\ \E p \in Reorderings(bSources) : bPerm' = p
    /\ bRun' = 2
    /\ bIdx' = 1
    /\ bAll' = <<>>
    /\ bpc' = "loop"
    /\ UNCHANGED <<bSources, bRet1, bRet2>>
    /\ BuildAlone


(***************************************************************************)
(* discover.Module, discover.Package, discover.ModuleUsage and             *)
(* discover.Project, as runBuild reads them.                               *)
(***************************************************************************)
Module(path, version, dir) == [Path |-> path, Version |-> version, Dir |-> dir]

\* A package; hasModule is Module != nil.
Package(importPath, dir, name, hasModule, module) ==
    [ImportPath |-> importPath, Dir |-> dir, Name |-> name,
     HasModule |-> hasModule, Module |-> module]

ModuleUsage(module, packages) == [Module |-> module, Packages |-> packages]

NoModule == Module(<<>>, <<>>, <<>>)

(***************************************************************************)
(* scanModulePackages.                                                     *)
(***************************************************************************)
\* The rule without the _test.go case.
shouldSkipManualFileNoTest(name) ==
    \/ HasSuffix(name, <<"_", "m", "o", "c", "k", ".", "g", "o">>)
    \/ HasSuffix(name, <<"_", "g", "e", "n", "e", "r", "a", "t", "e", "d", ".", "g", "o">>)
    \/ Contains(name, <<".", "p", "b", ".", "g", "o">>)
    \/ Contains(name, <<"_", "p", "b", "2", ".", "g", "o">>)

shouldSkipManualFile(name) ==
    \/ HasSuffix(name, <<"_", "t", "e", "s", "t", ".", "g", "o">>)
    \/ HasSuffix(name, <<"_", "m", "o", "c", "k", ".", "g", "o">>)
    \/ HasSuffix(name, <<"_", "g", "e", "n", "e", "r", "a", "t", "e", "d", ".", "g", "o">>)
    \/ Contains(name, <<".", "p", "b", ".", "g", "o">>)
    \/ Contains(name, <<"_", "p", "b", "2", ".", "g", "o">>)

\* filepath.Base of a clean path.
PathBase(path) ==
    LET parts == StrSplit(path, "/") IN
    IF parts = <<>> THEN Slash ELSE parts[Len(parts)]

\* The flag hasGo of the walk function for a listing.
hasGoFile(entries) ==
    \E i \in 1..Len(entries) :
        /\ ~entries[i].isDir
        /\ HasSuffix(entries[i].name, <<".", "g", "o">>)
        /\ ~shouldSkipManualFile(entries[i].name)

\* The package the walk function appends for the directory `path`.
scannedPackage(module, path) ==
    LET rel == PathRel(module.Dir, path).rel
        importPath == IF rel # <<".">> THEN module.Path \o Slash \o rel
                      ELSE module.Path
    IN  Package(importPath, path, PathBase(path), TRUE,
                Module(module.Path, module.Version, module.Dir))

\* Two walks in sequence: the error of the first ends the walk.
thenPkgs(first, rest) ==
    IF first.err.isErr THEN first
    ELSE [pkgs |-> first.pkgs \o rest.pkgs, err |-> rest.err]

\* The walk function on a directory that was read: its package, if it has
\* an eligible file.
ownPackage(module, path, entries) ==
    [pkgs |-> IF hasGoFile(entries) THEN <<scannedPackage(module, path)>> ELSE <<>>,
     err |-> NoErr]

\* Directories the walk does not enter.
skippedDir(name) ==
    \/ name \in {<<"v", "e", "n", "d", "o", "r">>,
                 <<"t", "e", "s", "t", "d", "a", "t", "a">>}
    \/ HasPrefix(name, <<".">>)

RECURSIVE walkDir(_, _, _)
RECURSIVE walkEntries(_, _, _, _)
\* filepath.WalkDir below the directory `path` with the walk function of
\* scanModulePackages: [pkgs, err], the packages appended so far and the
\* error that ended the walk.
walkDir(fs, module, path) ==
    IF skippedDir(PathBase(path)) THEN [pkgs |-> <<>>, err |-> NoErr]
    ELSE IF ReadDirFails(fs, path) THEN [pkgs |-> <<>>, err |-> Err(ErrNotExist)]
    ELSE thenPkgs(ownPackage(module, path, fs.dirs[path].entries),
                  walkEntries(fs, module, path, fs.dirs[path].entries))

\* The walk over the entries of a directory, in the order of the listing;
\* an error ends it.
walkEntries(fs, module, path, entries) ==
    IF entries = <<>> THEN [pkgs |-> <<>>, err |-> NoErr]
    ELSE thenPkgs(IF Head(entries).isDir
                  THEN walkDir(fs, module, PathJoin(path, Head(entries).name))
                  ELSE [pkgs |-> <<>>, err |-> NoErr],
                  walkEntries(fs, module, path, Tail(entries)))

\* The return of scanModulePackages: no packages with an error.
scanResult(w) == IF w.err.isErr THEN [pkgs |-> <<>>, err |-> w.err] ELSE w

\* scanModulePackages: [pkgs, err].
scanModulePackages(fs, module) ==
    IF module.Dir \notin DOMAIN fs.dirs
    THEN [pkgs |-> <<>>, err |-> Err(ErrNotExist)]
    ELSE scanResult(walkDir(fs, module, module.Dir))

(***************************************************************************)
(* Inputs of scanModulePackages: the directory trees of a module.          *)
(***************************************************************************)
\* The names a listing may hold, in the order os.ReadDir returns them.
ScanOrder ==
    <<Entry(<<".", "g", "i", "t">>, TRUE), Entry(FileAGo, FALSE),
      Entry(<<"a", "_", "t", "e", "s", "t", ".", "g", "o">>, FALSE),
      Entry(<<"n", "o", "t", "e", "s">>, FALSE), Entry(<<"p">>, TRUE), Entry(<<"q">>, TRUE),
      Entry(<<"t", "e", "s", "t", "d", "a", "t", "a">>, TRUE),
      Entry(<<"v", "e", "n", "d", "o", "r">>, TRUE)>>

\* The listing of a directory holding the given names.
ScanListing(names) == SelectSeq(ScanOrder, LAMBDA e : e.name \in names)

\* The files a directory of the tree may hold.
ScanFileSets == {{}, {FileAGo}, {<<"a", "_", "t", "e", "s", "t", ".", "g", "o">>, <<"n", "o", "t", "e", "s">>}}

\* A directory below the root: unreadable, or readable with some files.
ScanLeafShapes ==
    {[readable |-> FALSE, files |-> {}]}
        \cup {[readable |-> TRUE, files |-> f] : f \in ScanFileSets}

\* A directory of the root with, if it can be read, at most one directory
\* q in it: subs holds the shape of q.
ScanKidShapes ==
    {[own |-> o, subs |-> s] :
        o \in ScanLeafShapes,
        s \in {<<>>} \cup {<<q>> : q \in ScanLeafShapes}}
        \ {[own |-> o, subs |-> <<q>>] :
              o \in {[readable |-> FALSE, files |-> {}]}, q \in ScanLeafShapes}

\* os.ReadDir on a directory of the given shape with the given directories
\* in it.
ScanDir(shape, kidNames) ==
    IF shape.readable THEN Dir(ScanListing(shape.files \cup kidNames))
    ELSE UnreadableDir

\* The file system holding the tree: the root with its files and, for each
\* name of DOMAIN kids, a directory of the shape kids[name].
ScanTree(root, rootFiles, kids) ==
    [dirs |->
        (root :> Dir(ScanListing(rootFiles \cup DOMAIN kids)))
        @@ [d \in {PathJoin(root, k) : k \in DOMAIN kids} |->
               LET k == PathBase(d) IN
               ScanDir(kids[k].own, IF kids[k].subs = <<>> THEN {} ELSE {<<"q">>})]
        @@ [d \in {PathJoin(PathJoin(root, k), <<"q">>) :
                      k \in {n \in DOMAIN kids : kids[n].subs # <<>>}} |->
               ScanDir(kids[PathBase(SubSeq(d, 1, Len(d) - 2))].subs[1], {})],
     files |-> <<>>]

\* Module directories: a plain one, one named vendor, one with a dot.
ScanRoots == {<<"/", "r">>, <<"/", "v", "e", "n", "d", "o", "r">>, <<"/", ".", "r">>}

\* scanModulePackages is called on a module whose directory holds a tree.
ScanInit ==
    /\ \E root \in ScanRoots, rootFiles \in ScanFileSets,
          names \in {s \in SUBSET {e.name : e \in {ScanOrder[i] : i \in {1, 5, 7, 8}}} :
                        Cardinality(s) <= MaxKids} :
          \E kids \in [names -> ScanKidShapes] :
              /\ sModule = Module(<<"r">>, <<"v", "2">>, root)
              /\ fsys = ScanTree(root, rootFiles, kids)
    /\ sRet = [pkgs |-> <<>>, err |-> NoErr]
    /\ spc = "call"

\* Only scanModulePackages runs.
ScanAlone == UNCHANGED <<dvars, fsys, bvars, rvars, gvars>>

\* The call of scanModulePackages.
ScanCall ==
    /\ spc = "call"
    /\ sRet' = scanModulePackages(fsys, sModule)
    /\ spc' = "returned"
    /\ UNCHANGED sModule
    /\ ScanAlone

(***************************************************************************)
(* runBuild.                                                               *)
(***************************************************************************)
GoRoot == <<"/", "g">>
StdRoot == PathJoin(GoRoot, <<"s", "r", "c">>)

ErrNoSources ==
    Err(<<"n", "o", " ", "s", "o", "u", "r", "c", "e", "s", " ", "s", "e",
          "l", "e", "c", "t", "e", "d", ";", " ", "r", "u", "n", " ", "g",
          "o", "-", "r", "a", "g", "-", "p", "a", "c", "k", " ", "s", "e",
          "l", "e", "c", "t", " ", "o", "r", " ", "u", "s", "e", " ", "-",
          "-", "a", "u", "t", "o">>)
ErrWrite == Err(<<"w", "r", "i", "t", "e">>)

WarnPrefix ==
    <<"w", "a", "r", "n", "i", "n", "g", ":", " ", "m", "o", "d", "u", "l",
      "e", " ">>
WarnNotFound(path) ==
    WarnPrefix \o path
        \o <<" ", "n", "o", "t", " ", "f", "o", "u", "n", "d", ";", " ", "s",
             "k", "i", "p", "p", "i", "n", "g", "\n">>
WarnNoDir(path) ==
    WarnPrefix \o path
        \o <<" ", "h", "a", "s", " ", "n", "o", " ", "s", "o", "u", "r", "c",
             "e", " ", "d", "i", "r", "e", "c", "t", "o", "r", "y", ";", " ",
             "s", "k", "i", "p", "p", "i", "n", "g", "\n">>
WarnScan(path, err) == WarnPrefix \o path \o <<":", " ">> \o err.msg \o <<"\n">>

\* A map built from a list by assigning in list order, read at `path`:
\* keys[i] is the key of the i-th element, and the last one with the key
\* stays.
lookup(keys, path) ==
    LET idx == {i \in 1..Len(keys) : keys[i] = path} IN
    IF idx = {} THEN [ok |-> FALSE, at |-> 0]
    ELSE [ok |-> TRUE, at |-> CHOOSE i \in idx : \A j \in idx : j <= i]

\* The sources of the packages of a third-party usage (the loop over
\* mu.Packages).
usageSources(mu) ==
    LET one(pkg) ==
            LET dir == IF pkg.Dir = <<>> /\ pkg.HasModule
                       THEN pkg.Module.Dir ELSE pkg.Dir
                md1 == IF mu.Module.Dir = <<>> /\ pkg.HasModule
                       THEN pkg.Module.Dir ELSE mu.Module.Dir
                moduleDir == IF md1 = <<>> THEN dir ELSE md1
            IN  IF dir = <<>> THEN <<>>
                ELSE <<PackageSource(mu.Module.Path, mu.Module.Version, moduleDir,
                                     pkg.ImportPath, dir, SourceThirdParty)>>
    IN  concatAll([i \in 1..Len(mu.Packages) |-> one(mu.Packages[i])])

\* Manual module handling after the scan of the module's directory.
scannedSources(path, module, scan) ==
    IF scan.err.isErr
    THEN [sources |-> <<>>, warned |-> TRUE, warning |-> WarnScan(path, scan.err)]
    ELSE [sources |->
              [i \in 1..Len(scan.pkgs) |->
                  PackageSource(module.Path, module.Version, module.Dir,
                                scan.pkgs[i].ImportPath, scan.pkgs[i].Dir,
                                SourceThirdParty)],
          warned |-> FALSE, warning |-> <<>>]

\* Manual module handling for a module of the all-modules list.
manualSources(fs, path, module) ==
    IF module.Dir = <<>>
    THEN [sources |-> <<>>, warned |-> TRUE, warning |-> WarnNoDir(path)]
    ELSE scannedSources(path, module, scanModulePackages(fs, module))

\* The loop body after the two map lookups.
lookedUpSources(proj, fs, path, mu, am) ==
    IF mu.ok
    THEN [sources |-> usageSources(proj.ThirdParty[mu.at]), warned |-> FALSE,
          warning |-> <<>>]
    ELSE IF ~am.ok
    THEN [sources |-> <<>>, warned |-> TRUE, warning |-> WarnNotFound(path)]
    ELSE manualSources(fs, path, proj.AllModules[am.at])

\* One iteration of the loop over selectedModules, for the key `path`:
\* the sources appended and the warning written, if any.
moduleSources(proj, fs, path) ==
    lookedUpSources(proj, fs, path,
                    lookup([i \in 1..Len(proj.ThirdParty) |->
                               proj.ThirdParty[i].Module.Path], path),
                    lookup([i \in 1..Len(proj.AllModules) |->
                               proj.AllModules[i].Path], path))

\* The sources of the project's own packages.
projectSources(proj) ==
    [i \in 1..Len(proj.InternalPackages) |->
        PackageSource(proj.MainModule.Path, proj.MainModule.Version, proj.Root,
                      proj.InternalPackages[i].ImportPath,
                      proj.InternalPackages[i].Dir, SourceProject)]

\* The sources of the standard-library packages that have a directory.
stdlibSources(proj) ==
    LET withDir == SelectSeq(proj.StdlibPackages, LAMBDA pkg : pkg.Dir # <<>>) IN
    [i \in 1..Len(withDir) |->
        PackageSource(<<"s", "t", "d">>, <<>>, StdRoot, withDir[i].ImportPath,
                      withDir[i].Dir, SourceStdlib)]

SeqRange(s) == {s[i] : i \in 1..Len(s)}

(***************************************************************************)
(* Inputs of runBuild: the project found by Discover, the configuration.   *)
(***************************************************************************)
ModX == Module(<<"x">>, <<>>, <<"/", "m">>)
ModY == Module(<<"y">>, <<"v", "2">>, <<"/", "n">>)
ModV == Module(<<"v">>, <<"v", "2">>, <<"/", "v">>)
ModW == Module(<<"w">>, <<"v", "2">>, <<"/", "w">>)
ModZ == Module(<<"z">>, <<"v", "2">>, <<>>)
ModT == Module(<<"t">>, <<"v", "2">>, <<"/", "n">>)

ProjectBase ==
    [Root |-> <<"/", "m">>,
     MainModule |-> ModX,
     InternalPackages |-> <<Package(<<"x", "/", "p">>, DirMP, PkgP, TRUE, ModX)>>,
     StdlibPackages |->
         <<Package(<<"f", "m", "t">>, <<"/", "g", "/", "s", "r", "c", "/", "f", "m", "t">>,
                   <<"f", "m", "t">>, FALSE, NoModule),
           Package(<<"u", "n", "s", "a", "f", "e">>, <<>>, <<"u", "n", "s", "a", "f", "e">>,
                   FALSE, NoModule)>>,
     ThirdParty |->
         <<ModuleUsage(ModY,
              <<Package(<<"y", "/", "p">>, DirNP, PkgP, TRUE, ModY),
                Package(<<"y", "/", "q">>, <<>>, <<"q">>, TRUE, ModY)>>)>>,
     AllModules |-> <<ModX, ModT, ModV, ModW, ModY, ModZ>>]

\* The third-party module has no directory of its own, and one of its
\* packages neither a directory nor a module.
ProjectUnresolved ==
    [ProjectBase EXCEPT
        !.ThirdParty =
            <<ModuleUsage(Module(<<"y">>, <<"v", "2">>, <<>>),
                 <<Package(<<"y", "/", "p">>, DirNP, PkgP, TRUE, ModY),
                   Package(<<"y", "/", "q">>, <<>>, <<"q">>, FALSE, NoModule)>>)>>]

Projects == {ProjectBase, ProjectUnresolved}

\* The module paths a configuration may name; u is no module of the project.
SelectablePaths == {<<"y">>, <<"v">>, <<"w">>, <<"z">>, <<"u">>, <<"x">>}

Configs ==
    {[IncludeProject |-> ip, IncludeStdlib |-> is,
      SelectedModules |-> rangeOver(sel \cap {<<"y">>}),
      ManualModules |-> rangeOver(sel \ {<<"y">>})] :
        ip \in BOOLEAN, is \in BOOLEAN,
        sel \in {s \in SUBSET SelectablePaths : Cardinality(s) <= MaxSel}}

\* The file systems of a run: /m/p/a.go parses or does not.
RunFileSystems ==
    {fs \in BuildFileSystems :
        /\ fs.files[PathJoin(DirMP, FileAGo)] \in {FileTwoFuncs, Unparsable, Unreadable}
        /\ fs.files[PathJoin(DirMP, FileBGo)] = FileDocAndFunc
        /\ fs.files[PathJoin(DirNP, FileAGo)] = FileFuncAndMethod}

RunInit ==
    /\ fsys \in RunFileSystems
    /\ project \in Projects
    /\ cfg \in Configs
    /\ auto \in BOOLEAN
    /\ remaining = {}
    /\ visited = <<>>
    /\ sources = <<>>
    /\ warnings = <<>>
    /\ buildCalls = <<>>
    /\ written = <<>>
    /\ rErr = NoErr
    /\ rpc = "start"

\* runBuild is not part of the run.
RunIdle ==
    /\ project = [Root |-> <<>>]
    /\ cfg = [IncludeProject |-> FALSE]
    /\ auto = FALSE
    /\ remaining = {}
    /\ visited = <<>>
    /\ sources = <<>>
    /\ warnings = <<>>
    /\ buildCalls = <<>>
    /\ written = <<>>
    /\ rErr = NoErr
    /\ rpc = "idle"

\* Only runBuild runs.
RunAlone == UNCHANGED <<dvars, fsys, bvars, project, auto, svars, gvars>>

\* The --auto override of the configuration and the set selectedModules.
RunStart ==
    /\ rpc = "start"
    /\ cfg' = IF auto
              THEN [cfg EXCEPT
                       !.IncludeProject = TRUE,
                       !.IncludeStdlib = Len(project.StdlibPackages) > 0,
                       !.SelectedModules =
                           [i \in 1..Len(project.ThirdParty) |->
                               project.ThirdParty[i].Module.Path],
                       !.ManualModules = <<>>]
              ELSE cfg
    /\ remaining' = SeqRange(cfg'.SelectedModules) \cup SeqRange(cfg'.ManualModules)
    /\ rpc' = "project"
    /\ UNCHANGED <<visited, sources, warnings, buildCalls, written, rErr>>
    /\ RunAlone

\* if cfg.IncludeProject { ... }
RunAddProject ==
    /\ rpc = "project"
    /\ sources' = IF cfg.IncludeProject THEN sources \o projectSources(project)
                  ELSE sources
    /\ rpc' = "stdlib"
    /\ UNCHANGED <<cfg, remaining, visited, warnings, buildCalls, written, rErr>>
    /\ RunAlone

\* if cfg.IncludeStdlib { ... }
RunAddStdlib ==
    /\ rpc = "stdlib"
    /\ sources' = IF cfg.IncludeStdlib THEN sources \o stdlibSources(project)
                  ELSE sources
    /\ rpc' = "select"
    /\ UNCHANGED <<cfg, remaining, visited, warnings, buildCalls, written, rErr>>
    /\ RunAlone

\* The effect r of one iteration of the loop over selectedModules.
RunSelected(r) ==
    /\ sources' = sources \o r.sources
    /\ warnings' = IF r.warned THEN Append(warnings, r.warning) ELSE warnings

\* A selected module whose warning ends the run with an error.
RunSelectModuleFatal ==
    /\ rpc = "select"
    /\ \E path \in remaining :
          /\ remaining' = remaining \ {path}
          /\ visited' = Append(visited, path)
          /\ RunSelected(moduleSources(project, fsys, path))
    /\ rErr' = IF warnings' # warnings THEN Err(warnings'[Len(warnings')]) ELSE rErr
    /\ rpc' = IF warnings' # warnings THEN "done" ELSE rpc
    /\ UNCHANGED <<cfg, buildCalls, written>>
    /\ RunAlone

\* One iteration of `for path := range selectedModules`, the keys in any
\* order.
RunSelectModule ==
    /\ rpc = "select"
    /\ \E path \in remaining :
          /\ remaining' = remaining \ {path}
          /\ visited' = Append(visited, path)
          /\ RunSelected(moduleSources(project, fsys, path))
    /\ UNCHANGED <<cfg, buildCalls, written, rErr, rpc>>
    /\ RunAlone

\* The run goes on to chunk.Build whatever the length of sources.
RunCheckEmptySkipped ==
    /\ rpc = "select"
    /\ remaining = {}
    /\ rpc' = "build"
    /\ UNCHANGED <<cfg, remaining, visited, sources, warnings, buildCalls, written, rErr>>
    /\ RunAlone

\* if len(sources) == 0 { return errors.New("no sources selected; ...") }
RunCheckEmpty ==
    /\ rpc = "select"
    /\ remaining = {}
    /\ IF Len(sources) = 0
       THEN rErr' = ErrNoSources /\ rpc' = "done"
       ELSE rErr' = rErr /\ rpc' = "build"
    /\ UNCHANGED <<cfg, remaining, visited, sources, warnings, buildCalls, written>>
    /\ RunAlone

\* chunks, err := chunk.Build(dedupeSources(sources))
RunBuild ==
    /\ rpc = "build"
    /\ buildCalls' = Append(buildCalls, dedupeSources(sources))
    /\ bRet1' = Build(buildCalls'[Len(buildCalls')], fsys)
    /\ rErr' = IF bRet1'.err.isErr THEN bRet1'.err ELSE rErr
    /\ rpc' = IF bRet1'.err.isErr THEN "done" ELSE "write"
    /\ UNCHANGED <<cfg, remaining, visited, sources, warnings, written>>
    /\ UNCHANGED <<dvars, fsys, project, auto, svars, gvars>>
    /\ UNCHANGED <<bSources, bPerm, bRun, bIdx, bAll, bRet2, bpc>>

\* output.WriteJSONL(absOut, chunks), which succeeds or fails.
RunWrite ==
    /\ rpc = "write"
    /\ written' = Append(written, bRet1.chunks)
    /\ \E ok \in BOOLEAN : rErr' = IF ok THEN NoErr ELSE ErrWrite
    /\ rpc' = "done"
    /\ UNCHANGED <<cfg, remaining, visited, sources, warnings, buildCalls>>
    /\ RunAlone

\* No call of Build is part of the run.
BuildIdle ==
    /\ bSources = <<>>
    /\ bPerm = <<>>
    /\ bRun = 0
    /\ bIdx = 0
    /\ bAll = <<>>
    /\ bRet1 = NoResult
    /\ bRet2 = NoResult
    /\ bpc = "idle"

(***************************************************************************)
(* Discover (internal/discover).                                           *)
(***************************************************************************)
\* A Module as go list prints it: hasReplace is Replace != nil, and of the
\* replacement only the directory is read.
ListedModule(path, dir, main, hasReplace, replaceDir) ==
    [Path |-> path, Version |-> <<>>, Dir |-> dir, Main |-> main,
     HasReplace |-> hasReplace, Replace |-> [Dir |-> replaceDir]]

\* A Package as go list prints it.
ListedPackage(importPath, standard, hasModule, module) ==
    [ImportPath |-> importPath, Dir |-> <<"/", "d">>, Name |-> <<"p">>,
     Standard |-> standard, HasModule |-> hasModule, Module |-> module]

ErrNoModules ==
    Err(<<"n", "o", " ", "g", "o", " ", "m", "o", "d", "u", "l", "e", "s",
          " ", "f", "o", "u", "n", "d", ";", " ", "e", "n", "s", "u", "r",
          "e", " ", "g", "o", ".", "m", "o", "d", " ", "e", "x", "i", "s",
          "t", "s">>)
ErrNoMain ==
    Err(<<"m", "a", "i", "n", " ", "m", "o", "d", "u", "l", "e", " ", "n",
          "o", "t", " ", "i", "d", "e", "n", "t", "i", "f", "i", "e", "d",
          " ", "i", "n", " ", "g", "o", " ", "l", "i", "s", "t", " ", "o",
          "u", "t", "p", "u", "t">>)

\* goListModules on the answer of `go list -m -json all`: a module with a
\* replacement that has a directory takes that directory.
goListModules(answer) ==
    IF answer.err.isErr THEN [out |-> <<>>, err |-> answer.err]
    ELSE [out |->
              [i \in 1..Len(answer.out) |->
                  IF answer.out[i].HasReplace /\ answer.out[i].Replace.Dir # <<>>
                  THEN [answer.out[i] EXCEPT !.Dir = answer.out[i].Replace.Dir]
                  ELSE answer.out[i]],
          err |-> NoErr]

\* The packages of a set in ascending order of their import paths, which
\* are distinct: the loop over a map keyed by import path with the
\* sort.Slice after it.
sortedByImportPath(pkgs) ==
    LET paths == sortStrings(rangeOver({q.ImportPath : q \in pkgs})) IN
    [i \in 1..Len(paths) |-> CHOOSE q \in pkgs : q.ImportPath = paths[i]]

\* filterPackagesByModule, on packages with distinct import paths.
filterPackagesByModule(pkgs, modulePath) ==
    sortedByImportPath(
        {q \in SeqRange(pkgs) :
            \/ q.HasModule /\ q.Module.Path = modulePath
            \/ ~q.HasModule /\ HasPrefix(q.ImportPath, modulePath)})

\* What a map keyed by import path holds after the packages were stored
\* in list order: for each import path the last package.
lastByImportPath(pkgs) ==
    {pkgs[i] : i \in {j \in 1..Len(pkgs) :
        \A l \in (j + 1)..Len(pkgs) : pkgs[l].ImportPath # pkgs[j].ImportPath}}

collectStdlib(pkgs) ==
    sortedByImportPath(lastByImportPath(
        SelectSeq(pkgs, LAMBDA q : q.Standard /\ q.ImportPath # <<>>)))

\* The module an entry of `third` is made with: the package's module, or
\* the module of that path in moduleByPath when the package's has no
\* directory.
entryModule(pkgModule, known) ==
    IF pkgModule.Dir = <<>>
          /\ lookup([i \in 1..Len(known) |-> known[i].Path], pkgModule.Path).ok
    THEN known[lookup([i \in 1..Len(known) |-> known[i].Path], pkgModule.Path).at]
    ELSE pkgModule

\* The ModuleUsage for a module path: the entry is made at the first of
\* the kept packages with the path, and holds all of them.
usageOf(kept, known, path) ==
    ModuleUsage(
        entryModule(kept[CHOOSE i \in 1..Len(kept) :
                             /\ kept[i].Module.Path = path
                             /\ \A j \in 1..(i - 1) : kept[j].Module.Path # path].Module,
                    known),
        sortedByImportPath(lastByImportPath(
            SelectSeq(kept, LAMBDA q : q.Module.Path = path))))

\* collectThirdParty after the packages to skip were skipped; known holds
\* the modules moduleByPath was built from.
usagesOf(kept, known) ==
    [i \in 1..Cardinality({q.Module.Path : q \in SeqRange(kept)}) |->
        usageOf(kept, known,
                sortStrings(rangeOver({q.Module.Path : q \in SeqRange(kept)}))[i])]

\* collectThirdParty without the test against the main module's path.
collectThirdPartyWithMain(depPkgs, known, mainPath) ==
    usagesOf(SelectSeq(depPkgs, LAMBDA q : ~q.Standard /\ q.HasModule), known)

collectThirdParty(depPkgs, known, mainPath) ==
    usagesOf(SelectSeq(depPkgs,
                       LAMBDA q : ~q.Standard /\ q.HasModule
                                      /\ q.Module.Path # mainPath),
             known)

\* The zero values Project{} and Module{}.
NoListedModule == ListedModule(<<>>, <<>>, FALSE, FALSE, <<>>)
EmptyProject ==
    [Root |-> <<>>, MainModule |-> NoListedModule, InternalPackages |-> <<>>,
     ThirdParty |-> <<>>, StdlibPackages |-> <<>>, AllModules |-> <<>>]

(***************************************************************************)
(* Inputs of Discover: the answers of the three go list queries.           *)
(***************************************************************************)
ErrToolchain == Err(<<"g", "o", " ", "l", "i", "s", "t", ":", " ", "e", "x", "i", "t", " ",
      "s", "t", "a", "t", "u", "s", " ", "1">>)

\* The module y as go list may print it: plain, without a directory,
\* replaced by a directory, replaced by a module that has no directory.
ListedY ==
    {ListedModule(<<"y">>, <<"/", "n">>, FALSE, FALSE, <<>>),
     ListedModule(<<"y">>, <<>>, FALSE, FALSE, <<>>),
     ListedModule(<<"y">>, <<"/", "n">>, FALSE, TRUE, <<"/", "r">>),
     ListedModule(<<"y">>, <<"/", "r">>, FALSE, TRUE, <<"/", "r">>),
     ListedModule(<<"y">>, <<"/", "n">>, FALSE, TRUE, <<>>)}

ListedX == ListedModule(<<"x">>, <<"/", "m">>, TRUE, FALSE, <<>>)

\* Answers of `go list -m -json all`.
ModuleAnswers ==
    {[out |-> <<>>, err |-> ErrToolchain], [out |-> <<>>, err |-> NoErr]}
        \cup {[out |-> <<y>>, err |-> NoErr] : y \in ListedY}
        \cup {[out |-> <<ListedX, y>>, err |-> NoErr] : y \in ListedY}

\* Answers of `go list -json ./...`.
PackageAnswers ==
    {[out |-> <<>>, err |-> ErrToolchain],
     [out |-> <<ListedPackage(<<"x", "/", "p">>, FALSE, TRUE, ListedX),
                ListedPackage(<<"x">>, FALSE, FALSE, NoListedModule),
                ListedPackage(<<"c">>, FALSE, FALSE, NoListedModule)>>,
      err |-> NoErr]}

\* The packages `go list -deps -json ./...` may print.
ListedDeps ==
    {ListedPackage(<<"f", "m", "t">>, TRUE, FALSE, NoListedModule),
     ListedPackage(<<"x", "/", "p">>, FALSE, TRUE, ListedX),
     ListedPackage(<<"c">>, FALSE, FALSE, NoListedModule)}
        \cup {ListedPackage(ip, FALSE, TRUE, y) :
                 ip \in {<<"y", "/", "p">>, <<"y", "/", "q">>},
                 y \in ListedY}

\* Answers of `go list -deps -json ./...`.
DepsAnswers ==
    {[out |-> <<>>, err |-> ErrToolchain]}
        \cup {[out |-> s, err |-> NoErr] : s \in SeqsUpTo(ListedDeps, MaxDeps)}

DiscoverInit ==
    /\ toolchain \in [modules : ModuleAnswers, packages : PackageAnswers,
                      deps : DepsAnswers]
    /\ queries = <<>>
    /\ modules = <<>>
    /\ mainModule = NoListedModule
    /\ internalPkgs = <<>>
    /\ gRet = [project |-> EmptyProject, err |-> NoErr]
    /\ gpc = "modules"

\* Only Discover runs.
DiscoverAlone == UNCHANGED <<dvars, fsys, bvars, rvars, svars, toolchain>>

\* A return that hands out the modules listed so far with the error.
DiscoverFailPartial(err) ==
    /\ gRet' = [project |-> [EmptyProject EXCEPT !.AllModules = modules'],
                err |-> err]
    /\ gpc' = "returned"

\* Discover returns the empty Project and an error.
DiscoverFail(err) ==
    /\ gRet' = [project |-> EmptyProject, err |-> err]
    /\ gpc' = "returned"

\* Discover up to the check of the main module: goListModules, the loop
\* over the modules.
DiscoverModules ==
    /\ gpc = "modules"
    /\ queries' = Append(queries, "modules")
    /\ modules' = goListModules(toolchain.modules).out
    /\ mainModule' =
           IF \E i \in 1..Len(modules') : modules'[i].Main
           THEN modules'[CHOOSE i \in 1..Len(modules') :
                            /\ modules'[i].Main
                            /\ \A j \in (i + 1)..Len(modules') : ~modules'[j].Main]
           ELSE NoListedModule
    /\ IF toolchain.modules.err.isErr THEN DiscoverFail(toolchain.modules.err)
       ELSE IF Len(modules') = 0 THEN DiscoverFail(ErrNoModules)
       ELSE IF mainModule'.Path = <<>> THEN DiscoverFail(ErrNoMain)
       ELSE gpc' = "packages" /\ UNCHANGED gRet
    /\ UNCHANGED internalPkgs
    /\ DiscoverAlone

\* goListPackages and filterPackagesByModule.
DiscoverPackages ==
    /\ gpc = "packages"
    /\ queries' = Append(queries, "packages")
    /\ IF toolchain.packages.err.isErr
       THEN DiscoverFail(toolchain.packages.err) /\ UNCHANGED internalPkgs
       ELSE /\ internalPkgs' =
                   filterPackagesByModule(toolchain.packages.out, mainModule.Path)
            /\ gpc' = "deps"
            /\ UNCHANGED gRet
    /\ UNCHANGED <<modules, mainModule>>
    /\ DiscoverAlone

\* goListDeps, collectStdlib, collectThirdParty and the return.
DiscoverDeps ==
    /\ gpc = "deps"
    /\ queries' = Append(queries, "deps")
    /\ IF toolchain.deps.err.isErr THEN DiscoverFail(toolchain.deps.err)
       ELSE /\ gRet' =
                   [project |->
                        [Root |-> <<"/", "m">>,
                         MainModule |-> mainModule,
                         InternalPackages |-> internalPkgs,
                         ThirdParty |->
                             collectThirdParty(toolchain.deps.out, modules,
                                               mainModule.Path),
                         StdlibPackages |-> collectStdlib(toolchain.deps.out),
                         AllModules |-> modules],
                    err |-> NoErr]
            /\ gpc' = "returned"
    /\ UNCHANGED <<modules, mainModule, internalPkgs>>
    /\ DiscoverAlone

\* No call of scanModulePackages is made on its own.
ScanIdle ==
    /\ sModule = Module(<<>>, <<>>, <<>>)
    /\ sRet = [pkgs |-> <<>>, err |-> NoErr]
    /\ spc = "idle"

\* Discover is not part of the run.
DiscoverIdle ==
    /\ toolchain = <<>>
    /\ queries = <<>>
    /\ modules = <<>>
    /\ mainModule = Module(<<>>, <<>>, <<>>)
    /\ internalPkgs = <<>>
    /\ gRet = [err |-> NoErr]
    /\ gpc = "idle"

(***************************************************************************)
(* Specifications.                                                         *)
(***************************************************************************)
\* dedupeSources on every list, once and then on its own result.
NoFiles == [dirs |-> <<>>, files |-> <<>>]
InitDedupe ==
    DedupeInit /\ fsys = NoFiles /\ BuildIdle /\ RunIdle /\ ScanIdle /\ DiscoverIdle
NextDedupe == DedupeCall \/ DedupeAgain
SpecDedupe == InitDedupe /\ [][NextDedupe]_vars

\* As SpecDedupe, and then on a reordering of the list.
NextDedupePerm == DedupeCall \/ DedupeAgain \/ DedupePermuted
SpecDedupePerm == InitDedupe /\ [][NextDedupePerm]_vars

\* Build on every list of sources over every file system.
InitBuild == BuildInit /\ DedupeIdle /\ RunIdle /\ ScanIdle /\ DiscoverIdle
NextBuild == BuildPackage \/ BuildSort
SpecBuild == InitBuild /\ [][NextBuild]_vars

\* As SpecBuild, and then on a reordering of the sources.
NextBuildPerm == BuildPackage \/ BuildSort \/ BuildReordered
SpecBuildPerm == InitBuild /\ [][NextBuildPerm]_vars

\* scanModulePackages on every tree.
InitScan == ScanInit /\ DedupeIdle /\ BuildIdle /\ RunIdle /\ DiscoverIdle
NextScan == ScanCall
SpecScan == InitScan /\ [][NextScan]_vars

\* Discover on every answer of the toolchain.
InitDiscover == DiscoverInit /\ fsys = NoFiles /\ DedupeIdle /\ BuildIdle /\ RunIdle /\ ScanIdle
NextDiscover == DiscoverModules \/ DiscoverPackages \/ DiscoverDeps
SpecDiscover == InitDiscover /\ [][NextDiscover]_vars

\* runBuild from the return of Discover and loadOrDefault on.
Init == RunInit /\ DedupeIdle /\ BuildIdle /\ ScanIdle /\ DiscoverIdle
Next ==
    \/ RunStart
    \/ RunAddProject
    \/ RunAddStdlib
    \/ RunSelectModule
    \/ RunCheckEmpty
    \/ RunBuild
    \/ RunWrite
Spec == Init /\ [][Next]_vars

(***************************************************************************)
(* Properties of dedupeSources.                                            *)
(***************************************************************************)
SameKey(a, b) == a.ImportPath = b.ImportPath /\ a.Dir = b.Dir

\* (ImportPath, Dir) of a is not after that of b: ImportPath decides, then
\* Dir.
KeyLeq(a, b) ==
    \/ StrLess(a.ImportPath, b.ImportPath)
    \/ a.ImportPath = b.ImportPath /\ ~StrLess(b.Dir, a.Dir)

\* The precedence of the kinds: project > third-party > stdlib.
Outranks(k1, k2) ==
    \/ k1 = SourceProject /\ k2 \in {SourceThirdParty, SourceStdlib}
    \/ k1 = SourceThirdParty /\ k2 = SourceStdlib

\* C1: the list returned by dedupeSources holds no two entries with the
\* same (ImportPath, Dir) pair.
C1_UniqueKeys ==
    dpc \in {"once", "twice", "done"} =>
        \A i, j \in 1..Len(dOut) : i # j => ~SameKey(dOut[i], dOut[j])

\* C1 witness: a list in which a pair occurs twice has been deduplicated.
C1_Witness ==
    /\ dpc \in {"once", "twice", "done"}
    /\ \E i, j \in 1..Len(dIn) : i # j /\ SameKey(dIn[i], dIn[j])
    /\ Len(dOut) < Len(dIn)

\* C2: for a key that occurs in the input, the entry kept for it is
\* outranked by no input entry of that key: its kind is the
\* highest-precedence kind present, wherever the entries stand.
C2_HighestPrecedence ==
    dpc \in {"once", "twice", "done"} =>
        \A j \in 1..Len(dIn) :
            \E i \in 1..Len(dOut) :
                /\ SameKey(dOut[i], dIn[j])
                /\ \A l \in 1..Len(dIn) :
                       SameKey(dIn[l], dIn[j]) =>
                           ~Outranks(dIn[l].Kind, dOut[i].Kind)

\* C2 witness: a key occurs with all three kinds, the project entry last,
\* and the project entry is the one kept.
C2_Witness ==
    /\ dpc \in {"once", "twice", "done"}
    /\ Len(dIn) = 3
    /\ SameKey(dIn[1], dIn[2]) /\ SameKey(dIn[2], dIn[3])
    /\ dIn[1].Kind = SourceStdlib
    /\ dIn[2].Kind = SourceThirdParty
    /\ dIn[3].Kind = SourceProject
    /\ dOut = <<dIn[3]>>

\* C3: deduplication is idempotent.
C3_Idempotent == dpc = "twice" => dOut2 = dOut

\* C3 witness: the first pass changed the list and the second pass ran.
C3_Witness == dpc = "twice" /\ Len(dOut) >= 2 /\ dOut # dIn

\* C4: the output is in ascending order of (ImportPath, Dir), lists of
\* length 0 and 1 included.
C4_Sorted ==
    dpc \in {"once", "twice", "done"} =>
        \A i, j \in 1..Len(dOut) : i < j => KeyLeq(dOut[i], dOut[j])

\* C4 witness: an input that is out of order on the directory alone and on
\* the import path has been sorted.
C4_Witness ==
    /\ dpc \in {"once", "twice", "done"}
    /\ Len(dOut) = 3
    /\ ~KeyLeq(dIn[1], dIn[2]) /\ ~KeyLeq(dIn[2], dIn[3])
    /\ dIn[2].ImportPath = dIn[3].ImportPath

\* C5 (as claimed): two lists that are reorderings of each other
\* deduplicate to the same list, every field of every entry equal.
C5_OrderIndependent == dpc = "done" => dOutPerm = dOut

(***************************************************************************)
(* Properties of Build.                                                    *)
(***************************************************************************)
\* No two sources of the list share (ImportPath, Dir).
Deduplicated(srcs) ==
    \A i, j \in 1..Len(srcs) : i # j => ~SameKey(srcs[i], srcs[j])

\* (ModulePath, Path, ID) of a is not after that of b.
ChunkKeyLeq(a, b) ==
    \/ StrLess(a.Metadata.ModulePath, b.Metadata.ModulePath)
    \/ /\ a.Metadata.ModulePath = b.Metadata.ModulePath
       /\ \/ StrLess(a.Metadata.Path, b.Metadata.Path)
          \/ /\ a.Metadata.Path = b.Metadata.Path
             /\ ~StrLess(b.ID, a.ID)

\* The first call of Build has returned without error.
BuildReturnedOK == bpc = "returned" /\ bRun = 1 /\ ~bRet1.err.isErr

\* C7 (as claimed): for deduplicated sources, no two chunks of the list
\* Build returns have the same id.
C7_UniqueIDs ==
    (BuildReturnedOK /\ Deduplicated(bSources)) =>
        \A i, j \in 1..Len(bRet1.chunks) :
            i # j => bRet1.chunks[i].ID # bRet1.chunks[j].ID

\* C8: when Build returns without error, the chunks are in ascending order
\* of (Metadata.ModulePath, Metadata.Path, ID).
C8_ChunksSorted ==
    BuildReturnedOK =>
        \A i, j \in 1..Len(bRet1.chunks) :
            i < j => ChunkKeyLeq(bRet1.chunks[i], bRet1.chunks[j])

\* C8 witness: chunks of two modules that were collected out of order on
\* the module path and, within one file, on the id, have been returned.
C8_Witness ==
    /\ BuildReturnedOK
    /\ \E i, j \in 1..Len(bAll) :
          i < j /\ StrLess(bAll[j].Metadata.ModulePath, bAll[i].Metadata.ModulePath)
    /\ \E i, j \in 1..Len(bAll) :
          /\ i < j
          /\ bAll[j].Metadata.ModulePath = bAll[i].Metadata.ModulePath
          /\ bAll[j].Metadata.Path = bAll[i].Metadata.Path
          /\ StrLess(bAll[j].ID, bAll[i].ID)

\* C9 (as claimed): on unchanged files, Build returns the same sequence of
\* chunks for two lists of sources that are reorderings of each other.
C9_Reproducible ==
    (bpc = "returned" /\ bRun = 2) => bRet2.chunks = bRet1.chunks

(***************************************************************************)
(* Properties of runBuild.                                                 *)
(***************************************************************************)
\* The selection loop is over, and so is everything before it.
SelectionDone == rpc \in {"build", "write", "done"}

\* C6: when selection followed by deduplication yields no package source,
\* the run ends with the no-sources error and neither chunk.Build nor the
\* output writer is called; chunk.Build is never called with an empty list.
C6_NoSourcesIsFatal ==
    /\ \A i \in 1..Len(buildCalls) : buildCalls[i] # <<>>
    /\ (SelectionDone /\ dedupeSources(sources) = <<>>) =>
           /\ rpc = "done"
           /\ rErr = ErrNoSources
           /\ buildCalls = <<>>
           /\ written = <<>>

\* C6 witness: a run whose selected modules were all looked at and gave
\* nothing has ended with the no-sources error.
C6_Witness ==
    /\ rpc = "done"
    /\ visited # <<>>
    /\ sources = <<>>
    /\ rErr = ErrNoSources

\* The selected path has a third-party usage.
HasUsage(path) ==
    \E i \in 1..Len(project.ThirdParty) : project.ThirdParty[i].Module.Path = path

\* The modules of the all-modules list with the selected path.
ModulesAt(path) ==
    {project.AllModules[i] : i \in {j \in 1..Len(project.AllModules) :
                                        project.AllModules[j].Path = path}}

\* The three soft failures of manual module handling.
ModuleNotFound(path) == ~HasUsage(path) /\ ModulesAt(path) = {}
ModuleDirectoryUnresolved(path) ==
    ~HasUsage(path) /\ \E m \in ModulesAt(path) : m.Dir = <<>>
ManualModuleScanFailed(path) ==
    /\ ~HasUsage(path)
    /\ \E m \in ModulesAt(path) :
          m.Dir # <<>> /\ scanModulePackages(fsys, m).err.isErr
SoftFailure(path) ==
    \/ ModuleNotFound(path)
    \/ ModuleDirectoryUnresolved(path)
    \/ ManualModuleScanFailed(path)

\* The sources before the selection loop.
BaseSources ==
    (IF cfg.IncludeProject THEN projectSources(project) ELSE <<>>)
        \o (IF cfg.IncludeStdlib THEN stdlibSources(project) ELSE <<>>)

RECURSIVE SourcesOfPaths(_)
\* What the modules at the given paths contribute, in that order, each on
\* its own.
SourcesOfPaths(paths) ==
    IF paths = <<>> THEN <<>>
    ELSE moduleSources(project, fsys, Head(paths)).sources
             \o SourcesOfPaths(Tail(paths))

\* C10: a selected path with a soft failure (not found, no directory, scan
\* failed) gives one warning and no source and does not end the run: the
\* sources are those of a run over the other selected paths alone, and the
\* loop goes on while paths remain.
C10_WarnAndContinue ==
    rpc \in {"select", "build", "write", "done"} =>
        /\ sources = BaseSources
                         \o SourcesOfPaths(SelectSeq(visited,
                                                     LAMBDA p : ~SoftFailure(p)))
        /\ Len(warnings) = Len(SelectSeq(visited, SoftFailure))
        /\ \A i \in 1..Len(visited) :
              SoftFailure(visited[i]) =>
                  moduleSources(project, fsys, visited[i]).sources = <<>>
        /\ remaining # {} => (rpc = "select" /\ rErr = NoErr)
        /\ rErr.isErr => rErr.msg \notin SeqRange(warnings)

\* C10 witness: a run met all three soft failures, the not-found one before
\* a module that contributed sources, and went on to write its output.
C10_Witness ==
    /\ rpc = "done"
    /\ written # <<>>
    /\ \E p \in SeqRange(visited) : ModuleDirectoryUnresolved(p)
    /\ \E p \in SeqRange(visited) : ManualModuleScanFailed(p)
    /\ \E i, j \in 1..Len(visited) :
          /\ i < j
          /\ ModuleNotFound(visited[i])
          /\ moduleSources(project, fsys, visited[j]).sources # <<>>

\* The import paths that occur in the selected sources both as a project
\* source and as a source of a selected module.
OverlappingImportPaths ==
    {sources[i].ImportPath : i \in {k \in 1..Len(sources) :
        /\ sources[k].Kind = SourceProject
        /\ \E j \in 1..Len(sources) :
              /\ sources[j].Kind = SourceThirdParty
              /\ sources[j].ImportPath = sources[k].ImportPath}}

\* C11: with the project included, an import path that a selected module
\* yields as well occurs exactly once in the list given to chunk.Build, as
\* a project source with the main module's path and the project root as
\* its module directory.
C11_ProjectWinsOverlap ==
    \A c \in 1..Len(buildCalls) :
        \A ip \in OverlappingImportPaths :
            /\ Cardinality({i \in 1..Len(buildCalls[c]) :
                               buildCalls[c][i].ImportPath = ip}) = 1
            /\ \A i \in 1..Len(buildCalls[c]) :
                  buildCalls[c][i].ImportPath = ip =>
                      /\ buildCalls[c][i].Kind = SourceProject
                      /\ buildCalls[c][i].ModulePath = project.MainModule.Path
                      /\ buildCalls[c][i].ModuleDir = project.Root

\* C11 witness: the main module's own path was selected with the project
\* included, its scan found an internal package again, and chunk.Build
\* was called.
C11_Witness ==
    /\ cfg.IncludeProject
    /\ project.MainModule.Path \in SeqRange(visited)
    /\ OverlappingImportPaths # {}
    /\ Len(buildCalls) = 1
    /\ Len(buildCalls[1]) < Len(sources)

\* The eligible files of a source that cannot be read or parsed.
FailingFiles(src) ==
    IF ReadDirFails(fsys, src.Dir) THEN {}
    ELSE {f \in SeqRange(joinAll(src.Dir, eligibleNames(fsys.dirs[src.Dir].entries))) :
             f \notin DOMAIN fsys.files \/ fsys.files[f].err.isErr}

\* C14: when an eligible file of a source given to chunk.Build cannot be
\* read or parsed, Build returns an error naming the file and no chunks,
\* and the run ends with that error and nothing written.
C14_NoPartialOutput ==
    \A c \in 1..Len(buildCalls) :
        (\E i \in 1..Len(buildCalls[c]) : FailingFiles(buildCalls[c][i]) # {}) =>
            /\ bRet1.err.isErr
            /\ bRet1.chunks = <<>>
            /\ \E i \in 1..Len(buildCalls[c]) :
                  \E f \in FailingFiles(buildCalls[c][i]) :
                      Contains(bRet1.err.msg, f)
            /\ rpc = "done"
            /\ rErr = bRet1.err
            /\ written = <<>>

\* C14 witness: Build failed on a file after it had chunked another
\* package and a file of the same package, and the run ended.
C14_Witness ==
    /\ rpc = "done"
    /\ Len(buildCalls) = 1
    /\ bRet1.err.isErr
    /\ \E i, j \in 1..Len(buildCalls[1]) :
          /\ i < j
          /\ ~Build(<<buildCalls[1][i]>>, fsys).err.isErr
          /\ Build(<<buildCalls[1][i]>>, fsys).chunks # <<>>
          /\ FailingFiles(buildCalls[1][j]) # {}

\* The first position of the input with the key and the kind of e.
FirstLike(e) ==
    CHOOSE j \in 1..Len(dIn) :
        /\ SameKey(dIn[j], e) /\ dIn[j].Kind = e.Kind
        /\ \A l \in 1..(j - 1) : ~(SameKey(dIn[l], e) /\ dIn[l].Kind = e.Kind)

\* C17: every entry of the output of dedupeSources is an entry of the
\* input, the (ImportPath, Dir) pairs of the output are those of the input,
\* and among the input entries of one pair and one kind the first is kept.
C17_LosesAndInventsNothing ==
    dpc \in {"once", "twice", "done"} =>
        /\ \A i \in 1..Len(dOut) : \E j \in 1..Len(dIn) : dIn[j] = dOut[i]
        /\ {<<dOut[i].ImportPath, dOut[i].Dir>> : i \in 1..Len(dOut)}
               = {<<dIn[j].ImportPath, dIn[j].Dir>> : j \in 1..Len(dIn)}
        /\ \A i \in 1..Len(dOut) : dOut[i] = dIn[FirstLike(dOut[i])]

\* C17 witness: of two entries with one pair and one kind that differ in
\* the module path the first was kept, next to an entry of another pair.
C17_Witness ==
    /\ dpc \in {"once", "twice", "done"}
    /\ Len(dOut) = 2
    /\ \E j, l \in 1..Len(dIn) :
          /\ j < l
          /\ SameKey(dIn[j], dIn[l])
          /\ dIn[j].Kind = dIn[l].Kind
          /\ dIn[j].ModulePath # dIn[l].ModulePath
          /\ \E i \in 1..Len(dOut) : dOut[i] = dIn[j]

(***************************************************************************)
(* Properties of scanModulePackages.                                       *)
(***************************************************************************)
\* The names of the directories from the module's root down to d.
NamesDownTo(d) ==
    LET all == StrSplit(d, "/") IN
    {all[i] : i \in Len(StrSplit(sModule.Dir, "/"))..Len(all)}

\* d is neither inside nor itself a directory the walk leaves out.
NotLeftOut(d) ==
    \A n \in NamesDownTo(d) :
        /\ n \notin {<<"v", "e", "n", "d", "o", "r">>,
                     <<"t", "e", "s", "t", "d", "a", "t", "a">>}
        /\ Head(n) # "."

\* d directly holds a file that buildForPackage would parse.
HoldsEligibleFile(d) ==
    /\ ~ReadDirFails(fsys, d)
    /\ eligibleNames(fsys.dirs[d].entries) # <<>>

DiscoverReturnedOK == gpc = "returned" /\ ~gRet.err.isErr

\* A module with a replacement has the replacement's directory.
ResolvesToReplacement(m) == m.HasReplace => m.Dir = m.Replace.Dir

\* C12 (as claimed): in the Project returned by Discover every module with
\* a replacement has the directory of the replacement: the modules of
\* AllModules, MainModule and the module of every third-party usage, also
\* when the replacement has no directory.
C12_ReplacementDir ==
    DiscoverReturnedOK =>
        /\ \A i \in 1..Len(gRet.project.AllModules) :
              ResolvesToReplacement(gRet.project.AllModules[i])
        /\ ResolvesToReplacement(gRet.project.MainModule)
        /\ \A i \in 1..Len(gRet.project.ThirdParty) :
              ResolvesToReplacement(gRet.project.ThirdParty[i].Module)

QueryOrder == <<"modules", "packages", "deps">>

\* C15: Discover fails with the no-modules error when the module query
\* returns no module and with the no-main-module error exactly when it
\* returns modules none of which is flagged main; on these and on the
\* failure of a query it returns the empty Project and makes no query
\* after the failing step, and never makes a query twice.
C15_DiscoverFailures ==
    /\ \E n \in 0..3 : queries = SubSeq(QueryOrder, 1, n)
    /\ (gpc # "modules" /\ ~toolchain.modules.err.isErr) =>
           /\ toolchain.modules.out = <<>> => gRet.err = ErrNoModules
           /\ gRet.err = ErrNoMain <=>
                  /\ toolchain.modules.out # <<>>
                  /\ \A i \in 1..Len(toolchain.modules.out) :
                        ~toolchain.modules.out[i].Main
    /\ (gpc = "returned" /\ gRet.err.isErr) =>
           /\ gRet.project = EmptyProject
           /\ \/ /\ gRet.err \in {toolchain.modules.err, ErrNoModules, ErrNoMain}
                 /\ queries = <<"modules">>
              \/ /\ gRet.err = toolchain.packages.err
                 /\ queries = <<"modules", "packages">>
              \/ /\ gRet.err = toolchain.deps.err
                 /\ queries = QueryOrder
    /\ (gpc = "returned" /\ toolchain.modules.err.isErr) =>
           gRet.err = toolchain.modules.err
    /\ (gpc = "returned" /\ Len(queries) >= 2 /\ toolchain.packages.err.isErr) =>
           gRet.err = toolchain.packages.err /\ Len(queries) = 2
    /\ (gpc = "returned" /\ Len(queries) = 3 /\ toolchain.deps.err.isErr) =>
           gRet.err = toolchain.deps.err

\* C15 witness: the module query answered with modules, one of them main,
\* the package query failed, and Discover returned after two queries.
C15_Witness ==
    /\ gpc = "returned"
    /\ Len(modules) = 2
    /\ mainModule.Main
    /\ toolchain.packages.err.isErr
    /\ gRet = [project |-> EmptyProject, err |-> toolchain.packages.err]
    /\ queries = <<"modules", "packages">>

====
